---- MODULE Spec2Model ----
(***************************************************************************)
(* map_events: a Flask application (app.py) and a data generator script    *)
(* (insert.py) that keep point-located events in one Redis instance:       *)
(*   - the event store: one hash 'event:<id>' per event,                   *)
(*   - the geo index  : the sorted set 'events_geo' (GEOADD / GEORADIUS).  *)
(* Every Redis command, and every MULTI/EXEC pipeline (redis-py pipelines  *)
(* are transactional by default), is one atomic step; a request handler is *)
(* a sequence of such steps, and handlers of different workers interleave  *)
(* between them.                                                           *)
(*                                                                         *)
(* Coordinates: every point of the model lies on one meridian, so a point  *)
(* is its latitude in whole degrees and the great-circle distance of two   *)
(* points is the length of the meridian arc between them.  Distances and   *)
(* radii are integers in units of 0.0001 km (GEORADIUS answers with four   *)
(* decimals); the 'distance' field of a response is in units of 0.01 km.   *)
(* The 'created_at' field (a wall-clock reading) is left out of the        *)
(* hashes: no operation reads it.                                          *)
(***************************************************************************)
EXTENDS Integers, Sequences, FiniteSets, TLC

\* ------------------------------------------------------------- bounds
NumIds == 2          \* size of the identifier space str(uuid.uuid4())[:8]
MaxEvents == 3       \* largest num_events given to insert_events
MaxBatch == 2        \* largest batch_size given to insert_events

Procs == {"w1", "w2"}               \* concurrent request handlers of app.py
Gen == "gen"                        \* the process running insert.py
Ids == 1..NumIds
ValidLats == {0, 1, 2}               \* latitudes, in degrees
BadLats == {90}                     \* beyond the latitude GEOADD accepts
Lats == ValidLats \cup BadLats
Names == {"a"}
Cities == {"Delhi"}
DelhiLon == 77                      \* the meridian of every point

VARIABLES
  hashes,   \* event store: hashes[x] is the hash 'event:<x>', NoRec if absent
  geo,      \* geo index 'events_geo': geo[x] is member x's latitude, or NoPos
  pc,       \* pc[p]: where handler p stands
  loc,      \* loc[p]: the local variables of handler p
  ret,      \* the response returned by the step just taken (NoRet if none)
  log,      \* what app.py has written to a log or a report, oldest first
  \* history variables (read by no operation)
  created,  \* events create_event has inserted since the last completed clear
  clr,      \* what the last completed clear removed and is still gone
  snap      \* a snapshot of the two stores taken at a chosen earlier step

prog == <<hashes, geo, pc, loc, ret, log>>
hist == <<created, clr, snap>>
vars == <<hashes, geo, pc, loc, ret, log, created, clr, snap>>

\* ------------------------------------------------------------- values
NoRec == [f \in {} |-> ""]          \* HGETALL of a missing key: the empty dict
NoPos == -1000
NoRet == [kind |-> "none"]
NoLoc == [op |-> "none"]

Abs(n) == IF n < 0 THEN -n ELSE n

\* str(x) of a number and float(s) of such a string
ToStr(n) == <<"str", n>>
ToFloat(s) == s[2]

\* length of one degree of a meridian, in 0.0001 km
DegE4 == 1112263

\* great-circle distance of two points of the meridian, in 0.0001 km
Dist(a, b) == Abs(a - b) * DegE4

\* round(float(distance), 2): from 0.0001 km to 0.01 km (no distance of the
\* model ends in ...50, where Python rounds half to even)
Round2(d) == (d + 50) \div 100

\* the radii a search is called with: negative, zero, one degree
Radii == {-DegE4, 0, DegE4}

\* GEOADD and GEORADIUS reject a latitude outside [-85.05112878, 85.05112878]
ValidCoord(lat) == lat >= -85 /\ lat <= 85

\* ------------------------------------------------------- Redis commands
\* HSET key mapping: sets the given fields, keeps the hash's other fields
HSet(h, x, mapping) == [h EXCEPT ![x] = mapping @@ h[x]]

\* GEOADD events_geo lon lat member: adds the member or moves it
GeoAdd(g, x, lat) == [g EXCEPT ![x] = lat]

\* KEYS event:*
Keys(h) == {x \in Ids : h[x] # NoRec}

\* ZCARD events_geo
ZCard(g) == Cardinality({x \in Ids : g[x] # NoPos})

\* faulty variant of DelGeo: the index is left as it is
DelGeoNoop(g) == g

\* DEL events_geo
DelGeo(g) == [x \in Ids |-> NoPos]

\* faulty variant of DelKeys: only the first key is deleted
DelKeysFirstOnly(h, keys) ==
  [x \in Ids |-> IF keys # {} /\ x = CHOOSE m \in keys : \A k \in keys : m <= k
                 THEN NoRec ELSE h[x]]

\* DEL key1 key2 ...: one command, all keys at once
DelKeys(h, keys) == [x \in Ids |-> IF x \in keys THEN NoRec ELSE h[x]]

\* the members within the radius (distance <= radius)
GeoHits(g, q, r) == {x \in Ids : g[x] # NoPos /\ Dist(g[x], q) <= r}

IsSortedByDist(s) == \A i, j \in 1..Len(s) : i < j => s[i][2] <= s[j][2]

\* faulty variant of GeoRadius (and its base): every arrangement of the
\* hits, sorted or not
GeoRadiusUnsorted(g, q, r) ==
  LET H == GeoHits(g, q, r)
      n == Cardinality(H)
  IN  { [i \in 1..n |-> <<f[i], Dist(g[f[i]], q)>>] :
          f \in {f \in [1..n -> H] : \A i, j \in 1..n : i # j => f[i] # f[j]} }

\* GEORADIUS events_geo lon lat r km WITHDIST ASC: the lists of
\* (member, distance) it may answer with: the hits by ascending distance,
\* members at the same distance in an order the command does not fix
GeoRadius(g, q, r) == {s \in GeoRadiusUnsorted(g, q, r) : IsSortedByDist(s)}


\* a transactional pipeline's execute(): the queued commands, in order
RECURSIVE ExecHashes(_, _)
ExecHashes(h, queue) ==
  IF queue = <<>> THEN h
  ELSE LET c == Head(queue)
       IN  ExecHashes(IF c.cmd = "hset" THEN HSet(h, c.key, c.mapping) ELSE h,
                      Tail(queue))

\* a GEOADD with an invalid coordinate fails alone, the others are applied
RECURSIVE ExecGeo(_, _)
ExecGeo(g, queue) ==
  IF queue = <<>> THEN g
  ELSE LET c == Head(queue)
       IN  ExecGeo(IF c.cmd = "geoadd" /\ ValidCoord(c.lat)
                   THEN GeoAdd(g, c.member, c.lat) ELSE g,
                   Tail(queue))

\* execute() raises when a queued command failed
ExecFails(queue) ==
  \E i \in 1..Len(queue) : queue[i].cmd = "geoadd" /\ ~ValidCoord(queue[i].lat)

\* ------------------------------------------------------ app.py: helpers
\* event_data of create_event
EventData(x, name, lat) ==
  [id |-> x, name |-> name, lat |-> ToStr(lat), lon |-> ToStr(DelhiLon)]

\* the loop that combines event details with distance: a hit whose hash is
\* missing (an empty dict) is skipped
RECURSIVE Combine(_, _)
Combine(nearby_ids, event_details) ==
  IF nearby_ids = <<>> THEN <<>>
  ELSE LET details == Head(event_details)
           distance == Head(nearby_ids)[2]
       IN  (IF details # NoRec
            THEN << [distance |-> Round2(distance)] @@ details >>
            ELSE <<>>)
           \o Combine(Tail(nearby_ids), Tail(event_details))

\* faulty variant of SearchResponse: count is the number of geo hits
SearchResponseCountsHits(q, r, nearby_ids, nearby_events) ==
  [kind |-> "search", status |-> "ok", lat |-> q, radius |-> r,
   nearby_ids |-> nearby_ids, events |-> nearby_events,
   count |-> Len(nearby_ids)]

\* the JSON response of search_events (time_ms left out); lat, radius and
\* nearby_ids are kept beside it for the properties
SearchResponse(q, r, nearby_ids, nearby_events) ==
  [kind |-> "search", status |-> "ok", lat |-> q, radius |-> r,
   nearby_ids |-> nearby_ids, events |-> nearby_events,
   count |-> Len(nearby_events)]

Idle(p) == pc[p] = "idle"
Goto(p, where, locals) ==
  /\ pc' = [pc EXCEPT ![p] = where]
  /\ loc' = [loc EXCEPT ![p] = locals]
Return(p, response) ==
  /\ pc' = [pc EXCEPT ![p] = "idle"]
  /\ loc' = [loc EXCEPT ![p] = NoLoc]
  /\ ret' = response

\* ------------------------------------------------- app.py: create_event
\* faulty variant of CreateHSet: the geo entry is written where the hash
\* should be
CreateGeoAddFirst(p) ==
  /\ Idle(p)
  /\ \E x \in Ids, name \in Names, lat \in Lats :
       /\ geo' = GeoAdd(geo, x, lat)
       /\ Goto(p, "create_geoadd",
               [op |-> "create", event_id |-> x, name |-> name, lat |-> lat])
  /\ ret' = NoRet
  /\ UNCHANGED <<hashes, log>>

\* event_id = str(uuid.uuid4())[:8]; db.hset(f"event:{event_id}", ...)
CreateHSet(p) ==
  /\ Idle(p)
  /\ \E x \in Ids, name \in Names, lat \in Lats :
       /\ hashes' = HSet(hashes, x, EventData(x, name, lat))
       /\ Goto(p, "create_geoadd",
               [op |-> "create", event_id |-> x, name |-> name, lat |-> lat])
  /\ ret' = NoRet
  /\ UNCHANGED geo
  /\ UNCHANGED log

\* db.geoadd('events_geo', (lon, lat, event_id)); an invalid coordinate
\* raises and the handler ends in an error, the hash stays
CreateGeoAdd(p) ==
  /\ pc[p] = "create_geoadd"
  /\ LET l == loc[p]
     IN  IF ValidCoord(l.lat)
         THEN /\ geo' = GeoAdd(geo, l.event_id, l.lat)
              /\ Return(p, [kind |-> "create", status |-> "ok",
                            event_id |-> l.event_id, name |-> l.name,
                            lat |-> l.lat])
         ELSE /\ geo' = geo
              /\ Return(p, [kind |-> "create", status |-> "error",
                            event_id |-> l.event_id, name |-> l.name,
                            lat |-> l.lat])
  /\ UNCHANGED hashes
  /\ UNCHANGED log

\* ------------------------------------------------ app.py: search_events
\* db.georadius(...): a negative radius or an invalid centre raises; with
\* no hit the handler answers at once
SearchGeoRadius(p) ==
  /\ Idle(p)
  /\ \E q \in Lats, r \in Radii :
       IF r < 0 \/ ~ValidCoord(q)
       THEN Return(p, [kind |-> "search", status |-> "error",
                       lat |-> q, radius |-> r])
       ELSE \E nearby_ids \in GeoRadius(geo, q, r) :
              IF nearby_ids = <<>>
              THEN Return(p, SearchResponse(q, r, nearby_ids, <<>>))
              ELSE /\ Goto(p, "search_fetch",
                           [op |-> "search", lat |-> q, radius |-> r,
                            nearby_ids |-> nearby_ids])
                   /\ ret' = NoRet
  /\ UNCHANGED <<hashes, geo>>
  /\ UNCHANGED log

\* the pipeline of HGETALLs, executed at once, and the combining loop
SearchFetch(p) ==
  /\ pc[p] = "search_fetch"
  /\ LET l == loc[p]
         event_details ==
           [i \in 1..Len(l.nearby_ids) |-> hashes[l.nearby_ids[i][1]]]
     IN  Return(p, SearchResponse(l.lat, l.radius, l.nearby_ids,
                                  Combine(l.nearby_ids, event_details)))
  /\ UNCHANGED <<hashes, geo>>
  /\ UNCHANGED log

\* ---------------------------------------------- app.py: get_event_count
GetEventCount(p) ==
  /\ Idle(p)
  /\ Return(p, [kind |-> "count", count |-> ZCard(geo)])
  /\ UNCHANGED <<hashes, geo>>
  /\ UNCHANGED log

\* ------------------------------------------------- app.py: clear_events
\* db.delete('events_geo')
ClearDelGeo(p) ==
  /\ Idle(p)
  /\ geo' = DelGeo(geo)
  /\ Goto(p, "clear_keys", [op |-> "clear"])
  /\ ret' = NoRet
  /\ UNCHANGED hashes
  /\ UNCHANGED log

\* event_keys = db.keys('event:*')
ClearKeys(p) ==
  /\ pc[p] = "clear_keys"
  /\ Goto(p, "clear_delete", [op |-> "clear", event_keys |-> Keys(hashes)])
  /\ ret' = NoRet
  /\ UNCHANGED <<hashes, geo>>
  /\ UNCHANGED log

\* if event_keys: db.delete(*event_keys)
ClearDelete(p) ==
  /\ pc[p] = "clear_delete"
  /\ LET event_keys == loc[p].event_keys
     IN  /\ hashes' = IF event_keys # {} THEN DelKeys(hashes, event_keys)
                      ELSE hashes
         /\ Return(p, [kind |-> "clear", cleared |-> Cardinality(event_keys)])
  /\ UNCHANGED geo
  /\ UNCHANGED log

\* ----------------------------------------- app.py: migrate_to_georadius
\* event_keys = db.keys('event:*'); nothing to migrate: answer at once
MigrateKeys(p) ==
  /\ Idle(p)
  /\ LET event_keys == Keys(hashes)
     IN  IF event_keys = {}
         THEN Return(p, [kind |-> "migrate", status |-> "ok", migrated |-> 0])
         ELSE /\ Goto(p, "migrate_scan",
                      [op |-> "migrate", todo |-> event_keys,
                       queue |-> <<>>, migrated |-> 0])
              /\ ret' = NoRet
  /\ UNCHANGED <<hashes, geo>>
  /\ UNCHANGED log

\* one turn of the loop: event = db.hgetall(key), queue its GEOADD (KEYS
\* answers in no fixed order)
MigrateScan(p) ==
  /\ pc[p] = "migrate_scan"
  /\ loc[p].todo # {}
  /\ \E key \in loc[p].todo :
       LET l == loc[p]
           event == hashes[key]
           ok == event # NoRec /\ {"lat", "lon", "id"} \subseteq DOMAIN event
       IN  loc' = [loc EXCEPT ![p] =
                     [op |-> "migrate", todo |-> l.todo \ {key},
                      queue |-> IF ok
                                THEN Append(l.queue,
                                            [cmd |-> "geoadd",
                                             member |-> event.id,
                                             lat |-> ToFloat(event.lat)])
                                ELSE l.queue,
                      migrated |-> IF ok THEN l.migrated + 1 ELSE l.migrated]]
  /\ ret' = NoRet
  /\ UNCHANGED <<hashes, geo, pc>>
  /\ UNCHANGED log

\* faulty variant of MigrateExec: the pipeline is never executed
MigrateExecDropsQueue(p) ==
  /\ pc[p] = "migrate_scan"
  /\ loc[p].todo = {}
  /\ Return(p, [kind |-> "migrate", status |-> "ok",
                migrated |-> loc[p].migrated])
  /\ UNCHANGED <<hashes, geo, log>>

\* pipeline.execute() after the loop, and the answer
MigrateExec(p) ==
  /\ pc[p] = "migrate_scan"
  /\ loc[p].todo = {}
  /\ geo' = ExecGeo(geo, loc[p].queue)
  /\ Return(p, [kind |-> "migrate",
                status |-> IF ExecFails(loc[p].queue) THEN "error" ELSE "ok",
                migrated |-> loc[p].migrated])
  /\ UNCHANGED hashes
  /\ UNCHANGED log


\* ---------------------------------------------------- insert.py: script
\* event_data of insert_events
GenEventData(x, name, city, lat) ==
  [id |-> x, name |-> name, city |-> city,
   lat |-> ToStr(lat), lon |-> ToStr(DelhiLon)]

\* clear_existing_data: db.delete('events_geo')
GenClearDelGeo ==
  /\ pc[Gen] = "idle"
  /\ geo' = DelGeo(geo)
  /\ Goto(Gen, "gen_clear_keys", [op |-> "clear"])
  /\ ret' = NoRet
  /\ UNCHANGED hashes
  /\ UNCHANGED log

\* clear_existing_data: event_keys = db.keys('event:*')
GenClearKeys ==
  /\ pc[Gen] = "gen_clear_keys"
  /\ Goto(Gen, "gen_clear_delete",
          [op |-> "clear", event_keys |-> Keys(hashes)])
  /\ ret' = NoRet
  /\ UNCHANGED <<hashes, geo>>
  /\ UNCHANGED log

\* clear_existing_data: if event_keys: db.delete(*event_keys)
GenClearDelete ==
  /\ pc[Gen] = "gen_clear_delete"
  /\ LET event_keys == loc[Gen].event_keys
     IN  /\ hashes' = IF event_keys # {} THEN DelKeys(hashes, event_keys)
                      ELSE hashes
         /\ ret' = [kind |-> "gen_clear", cleared |-> Cardinality(event_keys)]
  /\ Goto(Gen, "insert", NoLoc)
  /\ UNCHANGED geo
  /\ UNCHANGED log

\* insert_events(num_events, batch_size): inserted = 0, an empty pipeline
InsertStart ==
  /\ pc[Gen] = "insert"
  /\ \E num_events \in 0..MaxEvents, batch_size \in 1..MaxBatch :
       Goto(Gen, "insert_loop",
            [op |-> "insert", num_events |-> num_events,
             batch_size |-> batch_size, i |-> 0, inserted |-> 0,
             pipeline |-> <<>>])
  /\ ret' = NoRet
  /\ UNCHANGED <<hashes, geo>>
  /\ UNCHANGED log

\* one turn of the loop: a point of a city, a fresh uuid prefix and a name;
\* the HSET and the GEOADD are queued; every batch_size-th turn executes
\* the pipeline and starts a new one
InsertTurn(x, name, city, lat) ==
  /\ pc[Gen] = "insert_loop"
  /\ loc[Gen].i < loc[Gen].num_events
  /\ LET l == loc[Gen]
         queued == l.pipeline \o
                   << [cmd |-> "hset", key |-> x,
                       mapping |-> GenEventData(x, name, city, lat)],
                      [cmd |-> "geoadd", member |-> x, lat |-> lat] >>
         inserted == l.inserted + 1
         full == inserted % l.batch_size = 0
     IN  /\ hashes' = IF full THEN ExecHashes(hashes, queued) ELSE hashes
         /\ geo' = IF full THEN ExecGeo(geo, queued) ELSE geo
         /\ loc' = [loc EXCEPT ![Gen] =
                      [l EXCEPT !.i = l.i + 1, !.inserted = inserted,
                                !.pipeline = IF full THEN <<>> ELSE queued]]
  /\ ret' = NoRet
  /\ UNCHANGED pc
  /\ UNCHANGED log

InsertLoop ==
  \E x \in Ids, name \in Names, city \in Cities, lat \in ValidLats :
    InsertTurn(x, name, city, lat)

\* after the loop: the remaining operations are executed, inserted returned
InsertFinish ==
  /\ pc[Gen] = "insert_loop"
  /\ loc[Gen].i = loc[Gen].num_events
  /\ LET l == loc[Gen]
         rest == l.inserted % l.batch_size # 0
     IN  /\ hashes' = IF rest THEN ExecHashes(hashes, l.pipeline) ELSE hashes
         /\ geo' = IF rest THEN ExecGeo(geo, l.pipeline) ELSE geo
         /\ ret' = [kind |-> "insert", num_events |-> l.num_events,
                    batch_size |-> l.batch_size, inserted |-> l.inserted]
         /\ Goto(Gen, "done", [op |-> "done", num_events |-> l.num_events])
  /\ UNCHANGED log


\* ------------------------------------------------------------ histories
NoSnap == [on |-> FALSE, h |-> [x \in Ids |-> NoRec], g |-> [x \in Ids |-> NoPos]]

GeoIds(g) == {x \in Ids : g[x] # NoPos}
Solo(p) == \A q \in (Procs \cup {Gen}) \ {p} : pc[q] = "idle"
Clearing(q) == pc[q] \in {"clear_keys", "clear_delete"}

\* the identifiers the step writes a hash or a geo entry for
Inserted ==
  {x \in Ids : \/ hashes'[x] # hashes[x] /\ hashes'[x] # NoRec
               \/ geo'[x] # geo[x] /\ geo'[x] # NoPos}

\* created: what create_event has inserted and no clear has completed since
TrackCreated ==
  /\ created' =
       IF ret'.kind = "create" /\ ret'.status = "ok"
       THEN created \cup {[id |-> ret'.event_id, lat |-> ret'.lat]}
       ELSE IF ret'.kind = "clear" THEN {} ELSE created
  /\ UNCHANGED <<clr, snap>>

\* clr: prior holds the identifiers a completed clear found (snap: the
\* stores as that clear found them) and nothing has inserted again; quiet
\* says that nothing has been inserted since the last clear returned
TrackClr ==
  clr' =
    IF ret'.kind = "clear"
    THEN [prior |-> clr.prior \cup Keys(snap.h) \cup GeoIds(snap.g),
          quiet |-> TRUE]
    ELSE IF Inserted # {}
    THEN [prior |-> clr.prior \ Inserted, quiet |-> FALSE]
    ELSE clr

\* snap, in runs of one operation at a time: the stores as the create or
\* clear in progress (or just returned) found them
SnapCall == snap' = [on |-> TRUE, h |-> hashes, g |-> geo]
SnapKeep == snap' = snap
SnapDrop == snap' = NoSnap

TrackCall == SnapCall /\ TrackClr /\ UNCHANGED created
TrackStep == SnapKeep /\ TrackClr /\ UNCHANGED created
TrackOther == SnapDrop /\ TrackClr /\ UNCHANGED created

\* snap, around concurrent clears: the stores as the first clear of a group
\* of overlapping clears found them, while one of the group is running
SnapClearStart(p) ==
  /\ snap' = IF \E q \in Procs : Clearing(q) THEN snap
             ELSE [on |-> TRUE, h |-> hashes, g |-> geo]
  /\ UNCHANGED <<created, clr>>
SnapClearEnd(p) ==
  /\ snap' = IF \E q \in Procs \ {p} : Clearing(q) THEN snap ELSE NoSnap
  /\ UNCHANGED <<created, clr>>

\* snap, beside insert_events: the stores as sequential create_event calls
\* for the same entries leave them, from the stores insert_events found
SnapLoadStart ==
  /\ snap' = [on |-> TRUE, h |-> hashes, g |-> geo]
  /\ UNCHANGED <<created, clr>>
SnapLoadCreate(x, name, lat) ==
  /\ snap' = [on |-> TRUE,
              h |-> HSet(snap.h, x, EventData(x, name, lat)),
              g |-> IF ValidCoord(lat) THEN GeoAdd(snap.g, x, lat) ELSE snap.g]
  /\ UNCHANGED <<created, clr>>

\* snap, around a migration: the stores as it found them; again says that
\* the step before its first was the successful return of a migration
SnapMigrateStart ==
  /\ snap' = [on |-> TRUE, h |-> hashes, g |-> geo,
              again |-> ret.kind = "migrate" /\ ret.status = "ok"]
  /\ UNCHANGED <<created, clr>>

\* ------------------------------------------------------- specifications
Init ==
  /\ hashes = [x \in Ids |-> NoRec]
  /\ geo = [x \in Ids |-> NoPos]
  /\ pc = [p \in Procs \cup {Gen} |-> "idle"]
  /\ loc = [p \in Procs \cup {Gen} |-> NoLoc]
  /\ ret = NoRet
  /\ log = <<>>
  /\ created = {}
  /\ clr = [prior |-> {}, quiet |-> FALSE]
  /\ snap = NoSnap

\* the application under concurrent requests
Next ==
  \/ \E p \in Procs : CreateHSet(p) /\ UNCHANGED hist
  \/ \E p \in Procs : CreateGeoAdd(p) /\ UNCHANGED hist
  \/ \E p \in Procs : SearchGeoRadius(p) /\ UNCHANGED hist
  \/ \E p \in Procs : SearchFetch(p) /\ UNCHANGED hist
  \/ \E p \in Procs : GetEventCount(p) /\ UNCHANGED hist
  \/ \E p \in Procs : ClearDelGeo(p) /\ UNCHANGED hist
  \/ \E p \in Procs : ClearKeys(p) /\ UNCHANGED hist
  \/ \E p \in Procs : ClearDelete(p) /\ UNCHANGED hist
  \/ \E p \in Procs : MigrateKeys(p) /\ UNCHANGED hist
  \/ \E p \in Procs : MigrateScan(p) /\ UNCHANGED hist
  \/ \E p \in Procs : MigrateExec(p) /\ UNCHANGED hist

Spec == Init /\ [][Next]_vars

\* the application, one request at a time
NextSeq ==
  \/ \E p \in Procs : Solo(p) /\ CreateHSet(p) /\ TrackCall
  \/ \E p \in Procs : Solo(p) /\ CreateGeoAdd(p) /\ TrackStep
  \/ \E p \in Procs : Solo(p) /\ SearchGeoRadius(p) /\ TrackOther
  \/ \E p \in Procs : Solo(p) /\ SearchFetch(p) /\ TrackStep
  \/ \E p \in Procs : Solo(p) /\ GetEventCount(p) /\ TrackOther
  \/ \E p \in Procs : Solo(p) /\ ClearDelGeo(p) /\ TrackCall
  \/ \E p \in Procs : Solo(p) /\ ClearKeys(p) /\ TrackStep
  \/ \E p \in Procs : Solo(p) /\ ClearDelete(p) /\ TrackStep
  \/ \E p \in Procs : Solo(p) /\ MigrateKeys(p) /\ TrackOther
  \/ \E p \in Procs : Solo(p) /\ MigrateScan(p) /\ TrackStep
  \/ \E p \in Procs : Solo(p) /\ MigrateExec(p) /\ TrackStep

SpecSeq == Init /\ [][NextSeq]_vars

\* the application, one request at a time, with the record of the events
\* create_event has inserted
NextCreated ==
  \/ \E p \in Procs : Solo(p) /\ CreateHSet(p) /\ TrackCreated
  \/ \E p \in Procs : Solo(p) /\ CreateGeoAdd(p) /\ TrackCreated
  \/ \E p \in Procs : Solo(p) /\ SearchGeoRadius(p) /\ TrackCreated
  \/ \E p \in Procs : Solo(p) /\ SearchFetch(p) /\ TrackCreated
  \/ \E p \in Procs : Solo(p) /\ GetEventCount(p) /\ TrackCreated
  \/ \E p \in Procs : Solo(p) /\ ClearDelGeo(p) /\ TrackCreated
  \/ \E p \in Procs : Solo(p) /\ ClearKeys(p) /\ TrackCreated
  \/ \E p \in Procs : Solo(p) /\ ClearDelete(p) /\ TrackCreated
  \/ \E p \in Procs : Solo(p) /\ MigrateKeys(p) /\ TrackCreated
  \/ \E p \in Procs : Solo(p) /\ MigrateScan(p) /\ TrackCreated
  \/ \E p \in Procs : Solo(p) /\ MigrateExec(p) /\ TrackCreated

SpecCreated == Init /\ [][NextCreated]_vars

\* the stores in any state the application can leave them in
HashChoices(x) ==
  {NoRec} \cup {EventData(x, name, lat) : name \in Names, lat \in Lats}
AnyHashes ==
  {h \in [Ids -> UNION {HashChoices(x) : x \in Ids}] :
     \A x \in Ids : h[x] \in HashChoices(x)}
AnyGeo == [Ids -> {NoPos} \cup ValidLats]

InitAny ==
  /\ hashes \in AnyHashes
  /\ geo \in AnyGeo
  /\ pc = [p \in Procs \cup {Gen} |-> "idle"]
  /\ loc = [p \in Procs \cup {Gen} |-> NoLoc]
  /\ ret = NoRet
  /\ log = <<>>
  /\ created = {}
  /\ clr = [prior |-> {}, quiet |-> FALSE]
  /\ snap = NoSnap

\* per identifier: nothing, a geo entry alone, a hash alone, or both at
\* one point
InitPaired ==
  /\ InitAny
  /\ \A x \in Ids : hashes[x] # NoRec =>
        /\ ValidCoord(ToFloat(hashes[x].lat))
        /\ geo[x] \in {NoPos, ToFloat(hashes[x].lat)}

\* searches, counts and clears running concurrently on such stores
NextClear ==
  \/ \E p \in Procs : SearchGeoRadius(p) /\ UNCHANGED hist
  \/ \E p \in Procs : SearchFetch(p) /\ UNCHANGED hist
  \/ \E p \in Procs : GetEventCount(p) /\ UNCHANGED hist
  \/ \E p \in Procs : ClearDelGeo(p) /\ SnapClearStart(p)
  \/ \E p \in Procs : ClearKeys(p) /\ UNCHANGED hist
  \/ \E p \in Procs : ClearDelete(p) /\ SnapClearEnd(p)

SpecClear == InitPaired /\ [][NextClear]_vars

\* one search at a time on such stores
NextSearch ==
  \/ \E p \in Procs : Solo(p) /\ SearchGeoRadius(p) /\ UNCHANGED hist
  \/ \E p \in Procs : Solo(p) /\ SearchFetch(p) /\ UNCHANGED hist

SpecSearch == InitAny /\ [][NextSearch]_vars

\* insert.py run as a script on such stores, the application counting
NextBulk ==
  \/ GenClearDelGeo /\ UNCHANGED hist
  \/ GenClearKeys /\ UNCHANGED hist
  \/ GenClearDelete /\ UNCHANGED hist
  \/ InsertStart /\ UNCHANGED hist
  \/ InsertLoop /\ UNCHANGED hist
  \/ InsertFinish /\ UNCHANGED hist
  \/ \E p \in Procs : GetEventCount(p) /\ UNCHANGED hist

SpecBulk == InitAny /\ [][NextBulk]_vars

\* insert.py run as a script, beside the create_event calls for its entries
NextLoad ==
  \/ GenClearDelGeo /\ UNCHANGED hist
  \/ GenClearKeys /\ UNCHANGED hist
  \/ GenClearDelete /\ UNCHANGED hist
  \/ InsertStart /\ SnapLoadStart
  \/ \E x \in Ids, name \in Names, city \in Cities, lat \in ValidLats :
       InsertTurn(x, name, city, lat) /\ SnapLoadCreate(x, name, lat)
  \/ InsertFinish /\ UNCHANGED hist

SpecLoad == InitAny /\ [][NextLoad]_vars

\* creates with valid coordinates, searches and counts running
\* concurrently, no clear
NoClearLats == {0, 1}

NextNoClear ==
  \/ \E p \in Procs : CreateHSet(p) /\ loc'[p].lat \in NoClearLats
                         /\ UNCHANGED hist
  \/ \E p \in Procs : CreateGeoAdd(p) /\ UNCHANGED hist
  \/ \E p \in Procs : SearchGeoRadius(p) /\ UNCHANGED hist
  \/ \E p \in Procs : SearchFetch(p) /\ UNCHANGED hist
  \/ \E p \in Procs : GetEventCount(p) /\ UNCHANGED hist

SpecNoClear == Init /\ [][NextNoClear]_vars

\* the events migrate_to_georadius is for: hashes stored before the geo
\* index existed, with or without coordinates, beside those of create_event
OldEventData(x, name) == [id |-> x, name |-> name]
OldHashChoices(x) ==
  HashChoices(x) \cup {OldEventData(x, name) : name \in Names}

InitMigrate ==
  /\ hashes \in [Ids -> UNION {OldHashChoices(x) : x \in Ids}]
  /\ \A x \in Ids : hashes[x] \in OldHashChoices(x)
  /\ geo \in AnyGeo
  /\ pc = [p \in Procs \cup {Gen} |-> "idle"]
  /\ loc = [p \in Procs \cup {Gen} |-> NoLoc]
  /\ ret = NoRet
  /\ log = <<>>
  /\ created = {}
  /\ clr = [prior |-> {}, quiet |-> FALSE]
  /\ snap = NoSnap

\* migrations, one at a time, on such stores
NextMigrate ==
  \/ \E p \in Procs : Solo(p) /\ MigrateKeys(p) /\ SnapMigrateStart
  \/ \E p \in Procs : Solo(p) /\ MigrateScan(p) /\ UNCHANGED hist
  \/ \E p \in Procs : Solo(p) /\ MigrateExec(p) /\ UNCHANGED hist

SpecMigrate == InitMigrate /\ [][NextMigrate]_vars


\* ----------------------------------------------------------- properties
NoOperationInProgress == \A p \in Procs \cup {Gen} : pc[p] = "idle"
SearchAnswered == ret.kind = "search" /\ ret.status = "ok"
EventIds(events) == {events[i].id : i \in 1..Len(events)}

\* the 'events' lists a search may answer with when both of its steps read
\* the stores h and g
SearchAnswers(q, r, h, g) ==
  { Combine(s, [i \in 1..Len(s) |-> h[s[i][1]]]) : s \in GeoRadius(g, q, r) }

\* C1: whenever no operation is in progress, the identifiers in the geo
\* index are exactly the identifiers that have a hash in the event store.
C1_StoresAgreeWhenIdle ==
  NoOperationInProgress => GeoIds(geo) = Keys(hashes)

\* C2: when create_event fails at the geo-index insert, both stores are as
\* they were before the call.
C2_FailedCreateRolledBack ==
  (ret.kind = "create" /\ ret.status = "error") =>
    (hashes = snap.h /\ geo = snap.g)

\* C3: no step changes the hash or moves the geo entry of an identifier
\* that has a hash already: an existing event is never overwritten.
C3_ExistingEventNeverOverwritten ==
  [][\A x \in Ids :
       hashes[x] # NoRec =>
         /\ hashes'[x] \in {hashes[x], NoRec}
         /\ geo[x] # NoPos => geo'[x] \in {geo[x], NoPos}]_vars

\* C4: after insert_events(N, batch_size) on cleared stores the event
\* store holds N hashes, the geo index N members, and count answers N.
C4_BulkLoadCountsN ==
  /\ ret.kind = "insert" =>
       /\ Cardinality(Keys(hashes)) = ret.num_events
       /\ ZCard(geo) = ret.num_events
  /\ (ret.kind = "count" /\ pc[Gen] = "done") =>
       ret.count = loc[Gen].num_events

\* C5: with clears running concurrently, a search or a count answers what
\* it would have answered on the stores as they were before the clear
\* started, or what it answers once the clear has finished (nothing, 0).
C5_ClearAtomicForQueries ==
  LET h == IF snap.on THEN snap.h ELSE hashes
      g == IF snap.on THEN snap.g ELSE geo
  IN  /\ SearchAnswered =>
           /\ \/ ret.events \in SearchAnswers(ret.lat, ret.radius, h, g)
              \/ snap.on /\ ret.events = <<>>
           /\ ret.count = Len(ret.events)
      /\ ret.kind = "count" =>
           \/ ret.count = ZCard(g)
           \/ snap.on /\ ret.count = 0

\* a search answers with events, from before the clear, after the clear in
\* progress has emptied the geo index
C5_Witness ==
  /\ SearchAnswered /\ ret.events # <<>>
  /\ snap.on /\ GeoIds(geo) = {} /\ Keys(hashes) # {}

\* C6: a search answers with the identifier of an event create_event has
\* inserted (and no clear removed) iff the event lies within the radius.
C6_SearchFindsExactlyEventsInRadius ==
  SearchAnswered =>
    \A e \in created :
      (e.id \in EventIds(ret.events)) <=> (Dist(e.lat, ret.lat) <= ret.radius)

C8_MissingRecordDropped ==
  ret.kind = "search" =>
    /\ ret.status = "error" => (ret.radius < 0 \/ ~ValidCoord(ret.lat))
    /\ ret.status = "ok" =>
         LET kept == SelectSeq(ret.nearby_ids,
                               LAMBDA hit : hashes[hit[1]] # NoRec)
         IN  /\ Len(ret.events) = Len(kept)
             /\ \A i \in 1..Len(kept) :
                  ret.events[i] =
                    [distance |-> Round2(kept[i][2])] @@ hashes[kept[i][1]]
             /\ ret.count = Len(ret.events)

\* a search drops a hit without a hash and answers with another
C8_Witness ==
  /\ SearchAnswered
  /\ ret.events # <<>>
  /\ Len(ret.events) < Len(ret.nearby_ids)

\* C9: once a clear has returned, with nothing else running and nothing
\* inserted since, count answers 0; and no search answers with an
\* identifier the clear found, until it is inserted again.
C9_ClearedStaysGone ==
  /\ (ret.kind = "count" /\ clr.quiet) => ret.count = 0
  /\ SearchAnswered => EventIds(ret.events) \cap clr.prior = {}

\* a search answers with an event inserted after a clear, while another
\* identifier the clear found is still gone
C9_Witness ==
  /\ SearchAnswered /\ ret.events # <<>>
  /\ clr.prior # {}

\* C10: a search with radius <= 0 (and a valid centre) answers normally,
\* with no events and count 0.
C10_NonPositiveRadiusEmpty ==
  (ret.kind = "search" /\ ret.radius <= 0 /\ ValidCoord(ret.lat)) =>
    /\ ret.status = "ok"
    /\ ret.events = <<>>
    /\ ret.count = 0

\* C11: when insert_events(n, batch_size) returns, both stores are as n
\* sequential create_event calls for the same identifiers, coordinates and
\* attributes leave them and nothing is left queued; and the pipeline
\* always holds each event's hash write next to its geo add, so that one
\* execute() applies both.
C11_BulkLoadEqualsCreates ==
  /\ ret.kind = "insert" => (hashes = snap.h /\ geo = snap.g)
  /\ pc[Gen] = "insert_loop" =>
       LET q == loc[Gen].pipeline
       IN  /\ Len(q) % 2 = 0
           /\ Len(q) < 2 * loc[Gen].batch_size
           /\ \A k \in 1..(Len(q) \div 2) :
                /\ q[2 * k - 1].cmd = "hset"
                /\ q[2 * k].cmd = "geoadd"
                /\ q[2 * k].member = q[2 * k - 1].key

\* C12: for every geo hit a search drops because its hash is missing, the
\* log holds an entry that names the hit.
C12_MissesReported ==
  SearchAnswered =>
    \A i \in 1..Len(ret.nearby_ids) :
      ret.nearby_ids[i][1] \notin EventIds(ret.events) =>
        \E k \in 1..Len(log) : log[k].event_id = ret.nearby_ids[i][1]

\* C13: with creates (valid coordinates), searches and counts running
\* concurrently and no clear, every identifier in the geo index has a hash
\* in every state, and every search finds the hash of each of its geo hits.
C13_NoDanglingGeoEntry ==
  /\ GeoIds(geo) \subseteq Keys(hashes)
  /\ SearchAnswered => Len(ret.events) = Len(ret.nearby_ids)

\* a search answers with an event while a create stands between its hash
\* write and its geo add, its identifier not yet in the geo index
C13_Witness ==
  /\ SearchAnswered /\ ret.events # <<>>
  /\ \E p \in Procs : /\ pc[p] = "create_geoadd"
                       /\ geo[loc[p].event_id] = NoPos
                       /\ hashes[loc[p].event_id] # NoRec

\* the records migrate_to_georadius is to index: those with the fields
\* 'id', 'lat' and 'lon'
Located(h) == {x \in Keys(h) : {"id", "lat", "lon"} \subseteq DOMAIN h[x]}

\* C14: when a migration run alone has completed, every hash with 'id',
\* 'lat' and 'lon' has a geo entry under its 'id' at its coordinates, the
\* event store is as the migration found it, 'migrated' is the number of
\* these hashes, and a migration run right after a completed one leaves
\* both stores as it found them.
C14_MigrationIndexesEveryRecord ==
  (ret.kind = "migrate" /\ ret.status = "ok") =>
    /\ \A x \in Located(snap.h) :
         geo[snap.h[x].id] = ToFloat(snap.h[x].lat)
    /\ hashes = snap.h
    /\ ret.migrated = Cardinality(Located(snap.h))
    /\ snap.again => geo = snap.g

\* a migration has given a hash its geo entry and passed over a hash
\* without coordinates
C14_Witness ==
  /\ ret.kind = "migrate" /\ ret.status = "ok"
  /\ ret.migrated >= 1
  /\ geo # snap.g
  /\ ret.migrated < Cardinality(Keys(hashes))

====
